---------------------------- MODULE Spec2Model ----------------------------
(***************************************************************************)
(* A model of api/spotify.py: one HTTP request served by catch_all, which  *)
(* fetches the now-playing payload (get), derives the playback status and  *)
(* the display fields (makeSVG), loads the artwork (loadImageB64), extracts*)
(* a palette (extract_colors), resolves the template (getTemplate) and     *)
(* answers.  Python values are modelled by tagged records: a record's k    *)
(* field says which Python value it is ("None", "dict", "str", ...).       *)
(* Strings that the code transforms are sequences of one-character strings.*)
(* The background_color and border_color parameters are passed through to  *)
(* the template unread and are left out.                                   *)
(***************************************************************************)
EXTENDS Integers, Sequences, FiniteSets, TLC

\* ------------------------------------------------------------- bounds
\* Longest track / artist name the upstream payload carries.
MaxLen == 1
\* Longest album.images list the upstream payload carries.
MaxImages == 2

\* -------------------------------------------------- program constants
None == "None"
PLACEHOLDER_URL == "https://picsum.photos/300/300"
FALLBACK_THEME == "spotify.html.j2"
DefaultPalette == << <<50, 50, 50>>, <<100, 100, 100>> >>
UnknownArtist == <<"U","n","k","n","o","w","n"," ","A","r","t","i","s","t">>
UnknownSong == <<"U","n","k","n","o","w","n"," ","S","o","n","g">>
NA == <<"N","/","A">>
\* The requests.get calls that pass timeout=5; get() passes none.
CallsWithTimeout == {"loadImageB64", "extract_colors"}

\* ------------------------------------------------ the upstream payload
Alphabet == {"a", "&"}
Strs == UNION {[1..n -> Alphabet] : n \in 0..MaxLen}

\* An optional string field: has = FALSE when the key is missing.
NoName == [has |-> FALSE, v |-> <<>>]
OptNames == {NoName} \cup {[has |-> TRUE, v |-> s] : s \in Strs}

\* An external_urls mapping: missing, {}, a mapping without the "spotify"
\* key, or a mapping with it.
NoUrls == [k |-> "absent", url |-> ""]
ExtUrls(u) ==
  {NoUrls, [k |-> "empty", url |-> ""], [k |-> "other", url |-> ""],
   [k |-> "spotify", url |-> u]}

NoArtist == [name |-> NoName, external_urls |-> NoUrls]
Artist == [name : OptNames, external_urls : ExtUrls("u1")]

\* The artists list: missing, [], or non-empty.  The code reads index 0
\* only, so a non-empty list is modelled by its first element.
NoArtists == [k |-> "absent", first |-> NoArtist]
Artists ==
  {NoArtists, [k |-> "empty", first |-> NoArtist]}
    \cup {[k |-> "list", first |-> a] : a \in Artist}

\* The album: missing, {}, a mapping without "images", or a mapping whose
\* images list has n elements; element i has the URL ImageUrl(i).
NoAlbum == [k |-> "absent", n |-> 0]
Albums ==
  {NoAlbum, [k |-> "empty", n |-> 0], [k |-> "noimages", n |-> 0]}
    \cup {[k |-> "images", n |-> n] : n \in 0..MaxImages}
ImageUrl(i) == "https://i.scdn.co/image/" \o ToString(i)

\* data["item"]: missing or null ("None"), a value that is not a dict, or
\* a dict with any subset of the four keys the code reads.
ItemNone ==
  [k |-> "None", name |-> NoName, artists |-> NoArtists, album |-> NoAlbum,
   external_urls |-> NoUrls]
ItemNonDict == [ItemNone EXCEPT !.k = "nondict"]
Tracks ==
  [k : {"dict"}, name : OptNames, artists : Artists, album : Albums,
   external_urls : ExtUrls("u2")]
Items == {ItemNone, ItemNonDict} \cup Tracks

\* What get() returns: None, or the decoded JSON object.
DataNone == [k |-> "None", is_playing |-> "absent", item |-> ItemNone]
Payloads ==
  [k : {"dict"}, is_playing : {"absent", "true", "false"}, item : Items]

\* ------------------------------------------------- Python truthiness
\* bool(item) for a dict: it has at least one key.
ItemTruthy(i) ==
  /\ i.k = "dict"
  /\ \/ i.name.has
     \/ i.artists.k # "absent"
     \/ i.album.k # "absent"
     \/ i.external_urls.k # "absent"
\* bool(data): None and {} are both falsy.
DataTruthy(d) ==
  /\ d.k = "dict"
  /\ (d.is_playing # "absent" \/ d.item.k # "None")
UrlsTruthy(u) == u.k \in {"other", "spotify"}
NameTruthy(nm) == nm.has /\ nm.v # <<>>
ArtistsTruthy(a) == a.k = "list"
AlbumTruthy(a) == a.k \in {"noimages", "images"}
ImagesTruthy(a) == a.k = "images" /\ a.n >= 1
StrTruthy(s) == s # None /\ s # ""
\* ------------------------------------------------------ pure helpers
\* str.replace(old, new) for a one-character old.
RECURSIVE Replace(_, _, _)
Replace(s, old, new) ==
  IF s = <<>> THEN <<>>
  ELSE (IF Head(s) = old THEN new ELSE <<Head(s)>>) \o Replace(Tail(s), old, new)

\* The replacement the source applies to both names: .replace("&", "&").
EscapeAmp(s) == Replace(s, "&", <<"&">>)

\* b64encode(response.content).decode("ascii") of the bytes served at url.
B64(url) == [k |-> "str", v |-> <<"b64", url>>]
NoneImage == [k |-> "None", v |-> <<>>]
EmptyImage == [k |-> "str", v |-> <<>>]

\* ColorThief is a black box: a palette it may return for two colours.
NonePalette == [k |-> "None", v |-> <<>>]
ExtractedPalettes == {[k |-> "list", v |-> << <<12, 34, 56>>, <<200, 180, 160>> >>]}

\* makeSVG, lines 86-123: the status keyword and the item kept.
StatusOf_NoDowngrade(data) ==
  IF ~DataTruthy(data) THEN [currentStatus |-> "offline", item |-> ItemNone]
  ELSE IF data.is_playing # "true"
    THEN [currentStatus |-> "recent",
          item |-> IF ItemTruthy(data.item) THEN data.item ELSE ItemNone]
    ELSE [currentStatus |-> "playing",
          item |-> IF ItemTruthy(data.item) THEN data.item ELSE ItemNone]

StatusOf(data) ==
  IF ~DataTruthy(data) THEN [currentStatus |-> "offline", item |-> ItemNone]
  ELSE IF data.is_playing # "true"
    THEN [currentStatus |-> "recent",
          item |-> IF ItemTruthy(data.item) THEN data.item ELSE ItemNone]
    ELSE IF ~ItemTruthy(data.item)
      THEN [currentStatus |-> "offline", item |-> ItemNone]
      ELSE [currentStatus |-> "playing", item |-> data.item]

\* makeSVG, lines 127-133: the artwork URL, or the exception raised.
ArtworkUrl(item) ==
  IF ItemTruthy(item) /\ AlbumTruthy(item.album) /\ ImagesTruthy(item.album)
  THEN IF item.album.n >= 2
       THEN [exc |-> None, url |-> ImageUrl(1)]
       ELSE [exc |-> "IndexError", url |-> ""]
  ELSE [exc |-> None, url |-> PLACEHOLDER_URL]

\* makeSVG, lines 148-151, one operator per assignment.
ArtistNameOf(item) ==
  IF ItemTruthy(item) /\ ArtistsTruthy(item.artists)
  THEN IF item.artists.first.name.has
       THEN [exc |-> None, v |-> EscapeAmp(item.artists.first.name.v)]
       ELSE [exc |-> "KeyError", v |-> <<>>]
  ELSE [exc |-> None, v |-> UnknownArtist]

SongNameOf(item) ==
  IF ItemTruthy(item) /\ NameTruthy(item.name)
  THEN [exc |-> None, v |-> EscapeAmp(item.name.v)]
  ELSE [exc |-> None, v |-> UnknownSong]

SongURIOf(item) ==
  IF ItemTruthy(item) /\ UrlsTruthy(item.external_urls)
  THEN IF item.external_urls.k = "spotify"
       THEN [exc |-> None, v |-> item.external_urls.url]
       ELSE [exc |-> "KeyError", v |-> ""]
  ELSE [exc |-> None, v |-> "#"]

ArtistURIOf(item) ==
  IF /\ ItemTruthy(item)
     /\ ArtistsTruthy(item.artists)
     /\ UrlsTruthy(item.artists.first.external_urls)
  THEN IF item.artists.first.external_urls.k = "spotify"
       THEN [exc |-> None, v |-> item.artists.first.external_urls.url]
       ELSE [exc |-> "KeyError", v |-> ""]
  ELSE [exc |-> None, v |-> "#"]

NoFields ==
  [exc |-> None, artistName |-> NA, songName |-> NA, songURI |-> "#",
   artistURI |-> "#"]

\* A bug the code could have: the "N/A" values of lines 92-95 are kept
\* when no item is left.
ExtractFields_KeepNA(item) ==
  LET a == ArtistNameOf(item)
      s == SongNameOf(item)
      u == SongURIOf(item)
      w == ArtistURIOf(item)
      exc == IF a.exc # None THEN a.exc
             ELSE IF s.exc # None THEN s.exc
             ELSE IF u.exc # None THEN u.exc
             ELSE w.exc
  IN IF ~ItemTruthy(item) THEN NoFields
     ELSE [exc |-> exc, artistName |-> a.v, songName |-> s.v, songURI |-> u.v,
           artistURI |-> w.v]

\* Lines 148-151 in order: the first assignment that raises ends makeSVG.
ExtractFields(item) ==
  LET a == ArtistNameOf(item)
      s == SongNameOf(item)
      u == SongURIOf(item)
      w == ArtistURIOf(item)
      exc == IF a.exc # None THEN a.exc
             ELSE IF s.exc # None THEN s.exc
             ELSE IF u.exc # None THEN u.exc
             ELSE w.exc
  IN [exc |-> exc, artistName |-> a.v, songName |-> s.v, songURI |-> u.v,
      artistURI |-> w.v]

\* Lines 138-143: a call that returned None gives its default.
Normalize_Coupled(img, pal) ==
  IF img.k = "None" \/ pal.k = "None"
  THEN [image |-> EmptyImage, songPalette |-> DefaultPalette]
  ELSE [image |-> img, songPalette |-> pal.v]

Normalize(img, pal) ==
  [image |-> IF img.k = "None" THEN EmptyImage ELSE img,
   songPalette |-> IF pal.k = "None" THEN DefaultPalette ELSE pal.v]

\* loadImageB64, lines 74-81: the outcome of requests.get decides the result.
LoadImageB64(url, outcome) ==
  IF outcome = "ok" THEN B64(url) ELSE NoneImage

\* extract_colors, lines 30-42: both except clauses return None.
ExtractColors(palette, outcome) ==
  IF outcome = "ok" THEN palette ELSE NonePalette

\* ------------------------------------------------ the template registry
\* api/templates.json as getTemplate finds it: missing, not JSON, JSON that
\* is no object, or an object with "templates" (its keys) and "current-theme".
ThemeKeys == {"", "dark", "light"}
TemplateFile(key) == key \o ".html.j2"
BadRegistry(kind) == [k |-> kind, keys |-> {}, current |-> None]
AllRegistries ==
  {BadRegistry("missing"), BadRegistry("corrupt"), BadRegistry("notdict")}
    \cup [k : {"ok"}, keys : SUBSET ThemeKeys,
          current : {None, "", "dark", "light", "nope"}]
AllThemes == {None, "", "dark", "light", "nope"}

\* The registries and the theme parameters of the request model.
Registries ==
  {BadRegistry("missing"),
   [k |-> "ok", keys |-> {"dark", "light"}, current |-> "light"]}
Themes == {None, "dark"}

\* A bug the code could have: an unknown theme goes straight to the
\* hardcoded fallback, without trying current-theme.
getTemplate_NoCurrent(theme, reg) ==
  IF reg.k # "ok" THEN FALLBACK_THEME
  ELSE IF StrTruthy(theme)
    THEN IF theme \in reg.keys THEN TemplateFile(theme) ELSE FALLBACK_THEME
    ELSE IF StrTruthy(reg.current) /\ reg.current \in reg.keys
      THEN TemplateFile(reg.current)
      ELSE FALLBACK_THEME

\* getTemplate, lines 45-72.
getTemplate(theme, reg) ==
  LET opened == CASE reg.k = "missing" -> "FileNotFoundError"
                  [] reg.k = "corrupt" -> "JSONDecodeError"
                  [] reg.k = "notdict" -> "AttributeError"
                  [] OTHER -> None
      available_templates == [x \in reg.keys |-> TemplateFile(x)]
  IN IF opened # None THEN FALLBACK_THEME
     ELSE IF StrTruthy(theme) /\ theme \in DOMAIN available_templates
       THEN available_templates[theme]
       ELSE IF /\ StrTruthy(reg.current)
               /\ reg.current \in DOMAIN available_templates
         THEN available_templates[reg.current]
         ELSE FALLBACK_THEME

\* ------------------------------------------------------------- state
VARIABLES
  pc,            \* where the request is: the call it waits on, or "responded"
  stalled,       \* the remote server of the pending call will never answer
  theme_name,    \* catch_all: request.args.get('theme')
  registry,      \* the content of api/templates.json
  upstream,      \* how the now-playing fetch ended
  data,          \* catch_all: what get() returned
  item,          \* makeSVG: item
  currentStatus, \* makeSVG: currentStatus
  image_url,     \* makeSVG: image_url
  image,         \* makeSVG: what loadImageB64 returned
  songPalette,   \* makeSVG: what extract_colors returned
  imageOutcome,  \* how the artwork fetch ended: "ok" or "failed"
  paletteOutcome,\* how the palette extraction ended: "ok" or "failed"
  dataDict,      \* makeSVG: the values handed to render_template
  template_file, \* makeSVG: what getTemplate returned
  http_status,   \* the status of the response; 0 before it is sent
  raised         \* the line that raised an unhandled exception, or None

vars ==
  <<pc, stalled, theme_name, registry, upstream, data, item, currentStatus,
    image_url, image, songPalette, imageOutcome, paletteOutcome, dataDict,
    template_file, http_status, raised>>

NoDict ==
  [artistName |-> <<>>, songName |-> <<>>, songURI |-> "", artistURI |-> "",
   image |-> NoneImage, status |-> "", songPalette |-> <<>>]

Fresh ==
  /\ stalled = FALSE
  /\ theme_name = None
  /\ upstream = ""
  /\ data = DataNone
  /\ item = ItemNone
  /\ currentStatus = ""
  /\ image_url = ""
  /\ image = NoneImage
  /\ songPalette = NonePalette
  /\ imageOutcome = ""
  /\ paletteOutcome = ""
  /\ dataDict = NoDict
  /\ template_file = ""
  /\ http_status = 0
  /\ raised = None

Init ==
  /\ pc = "idle"
  /\ registry \in Registries
  /\ Fresh

\* catch_all, lines 173-178: read the query parameters and call get().
catch_all ==
  /\ pc = "idle"
  /\ \E t \in Themes : theme_name' = t
  /\ pc' = "get"
  /\ UNCHANGED <<stalled, registry, upstream, data, item, currentStatus,
                 image_url, image, songPalette, imageOutcome, paletteOutcome,
                 dataDict, template_file, http_status, raised>>

\* The server of the pending requests.get call stops answering.
Stall ==
  /\ pc \in {"get", "loadImageB64", "extract_colors"}
  /\ ~stalled
  /\ stalled' = TRUE
  /\ UNCHANGED <<pc, theme_name, registry, upstream, data, item, currentStatus,
                 image_url, image, songPalette, imageOutcome, paletteOutcome,
                 dataDict, template_file, http_status, raised>>

\* get, lines 20-23: status 200, the body decoded (a JSON null gives None).
get_200 ==
  /\ pc = "get"
  /\ ~stalled
  /\ \E d \in Payloads \cup {DataNone} : data' = d
  /\ upstream' = "200"
  /\ pc' = "makeSVG"
  /\ UNCHANGED <<stalled, theme_name, registry, item, currentStatus, image_url,
                 image, songPalette, imageOutcome, paletteOutcome, dataDict,
                 template_file, http_status, raised>>

\* get, lines 24-28: any other status returns None.
get_non200 ==
  /\ pc = "get"
  /\ ~stalled
  /\ data' = DataNone
  /\ upstream' = "non200"
  /\ pc' = "makeSVG"
  /\ UNCHANGED <<stalled, theme_name, registry, item, currentStatus, image_url,
                 image, songPalette, imageOutcome, paletteOutcome, dataDict,
                 template_file, http_status, raised>>

\* get, lines 20 and 23: requests.get (a network error) or response.json (a
\* body that is not JSON) raises; nothing catches it before Flask, which
\* answers 500.
get_raises ==
  /\ pc = "get"
  /\ ~stalled
  /\ \E e \in {"ConnectionError", "JSONDecodeError"} : upstream' = e
  /\ raised' = "get"
  /\ http_status' = 500
  /\ pc' = "responded"
  /\ UNCHANGED <<stalled, theme_name, registry, data, item, currentStatus,
                 image_url, image, songPalette, imageOutcome, paletteOutcome,
                 dataDict, template_file>>

\* makeSVG, lines 86-135, up to the call of loadImageB64.
makeSVG_status ==
  /\ pc = "makeSVG"
  /\ LET r == StatusOf(data)
         a == ArtworkUrl(r.item)
     IN /\ currentStatus' = r.currentStatus
        /\ item' = r.item
        /\ IF a.exc # None
           THEN /\ raised' = "makeSVG:128"
                /\ http_status' = 500
                /\ pc' = "responded"
                /\ UNCHANGED image_url
           ELSE /\ image_url' = a.url
                /\ pc' = "loadImageB64"
                /\ UNCHANGED <<raised, http_status>>
  /\ UNCHANGED <<stalled, theme_name, registry, upstream, data, image,
                 songPalette, imageOutcome, paletteOutcome, dataDict,
                 template_file>>

\* loadImageB64, lines 74-81: the fetch ends, well or with a RequestException.
loadImageB64_returns ==
  /\ pc = "loadImageB64"
  /\ ~stalled
  /\ \E o \in {"ok", "failed"} :
       /\ imageOutcome' = o
       /\ image' = LoadImageB64(image_url, o)
  /\ pc' = "extract_colors"
  /\ UNCHANGED <<stalled, theme_name, registry, upstream, data, item,
                 currentStatus, image_url, songPalette, paletteOutcome,
                 dataDict, template_file, http_status, raised>>

\* loadImageB64, line 76: timeout=5 ends a fetch that is never answered.
loadImageB64_timeout ==
  /\ pc = "loadImageB64"
  /\ pc \in CallsWithTimeout
  /\ stalled
  /\ imageOutcome' = "failed"
  /\ image' = LoadImageB64(image_url, "failed")
  /\ stalled' = FALSE
  /\ pc' = "extract_colors"
  /\ UNCHANGED <<theme_name, registry, upstream, data, item, currentStatus,
                 image_url, songPalette, paletteOutcome, dataDict,
                 template_file, http_status, raised>>

\* extract_colors, lines 30-42.
extract_colors_returns ==
  /\ pc = "extract_colors"
  /\ ~stalled
  /\ \E o \in {"ok", "failed"}, p \in ExtractedPalettes :
       /\ paletteOutcome' = o
       /\ songPalette' = ExtractColors(p, o)
  /\ pc' = "compose"
  /\ UNCHANGED <<stalled, theme_name, registry, upstream, data, item,
                 currentStatus, image_url, image, imageOutcome, dataDict,
                 template_file, http_status, raised>>

\* extract_colors, line 32: timeout=5 ends a fetch that is never answered.
extract_colors_timeout ==
  /\ pc = "extract_colors"
  /\ pc \in CallsWithTimeout
  /\ stalled
  /\ paletteOutcome' = "failed"
  /\ songPalette' = ExtractColors(NonePalette, "failed")
  /\ stalled' = FALSE
  /\ pc' = "compose"
  /\ UNCHANGED <<theme_name, registry, upstream, data, item, currentStatus,
                 image_url, image, imageOutcome, dataDict, template_file,
                 http_status, raised>>

\* makeSVG, lines 137-167, and catch_all, lines 181-186.
makeSVG_compose ==
  /\ pc = "compose"
  /\ LET n == Normalize(image, songPalette)
         f == ExtractFields(item)
     IN IF f.exc # None
        THEN /\ raised' = "makeSVG:148"
             /\ http_status' = 500
             /\ UNCHANGED <<dataDict, template_file>>
        ELSE /\ dataDict' =
                  [artistName |-> f.artistName, songName |-> f.songName,
                   songURI |-> f.songURI, artistURI |-> f.artistURI,
                   image |-> n.image, status |-> currentStatus,
                   songPalette |-> n.songPalette]
             /\ template_file' = getTemplate(theme_name, registry)
             /\ http_status' = 200
             /\ UNCHANGED raised
  /\ pc' = "responded"
  /\ UNCHANGED <<stalled, theme_name, registry, upstream, data, item,
                 currentStatus, image_url, image, songPalette, imageOutcome,
                 paletteOutcome>>

Next ==
  \/ catch_all
  \/ Stall
  \/ get_200
  \/ get_non200
  \/ get_raises
  \/ makeSVG_status
  \/ loadImageB64_returns
  \/ loadImageB64_timeout
  \/ extract_colors_returns
  \/ extract_colors_timeout
  \/ makeSVG_compose

Spec == Init /\ [][Next]_vars

\* Every step of the request is taken when it can be: the interpreter runs
\* the handler to its end, and a pending call returns when it is answered
\* or when its timeout expires.
FairSpec == Spec /\ WF_vars(Next)

\* ------------------------------------- getTemplate on its own inputs
InitTemplate ==
  /\ pc = "getTemplate"
  /\ registry \in AllRegistries
  /\ stalled = FALSE
  /\ theme_name \in AllThemes
  /\ upstream = ""
  /\ data = DataNone
  /\ item = ItemNone
  /\ currentStatus = ""
  /\ image_url = ""
  /\ image = NoneImage
  /\ songPalette = NonePalette
  /\ imageOutcome = ""
  /\ paletteOutcome = ""
  /\ dataDict = NoDict
  /\ template_file = ""
  /\ http_status = 0
  /\ raised = None

getTemplate_call ==
  /\ pc = "getTemplate"
  /\ template_file' = getTemplate(theme_name, registry)
  /\ pc' = "returned"
  /\ UNCHANGED <<stalled, theme_name, registry, upstream, data, item,
                 currentStatus, image_url, image, songPalette, imageOutcome,
                 paletteOutcome, dataDict, http_status, raised>>

NextTemplate == getTemplate_call

SpecTemplate == InitTemplate /\ [][NextTemplate]_vars

\* ------------------------------------------------------------ claims
\* makeSVG has derived the status of the payload it was handed.
StatusDerived ==
  \/ pc \in {"loadImageB64", "extract_colors", "compose"}
  \/ pc = "responded" /\ raised # "get"

\* makeSVG has reached its field extraction (lines 146-151).
FieldsReached == pc = "responded" /\ raised \notin {"get", "makeSVG:128"}

\* The response was rendered from dataDict.
Rendered == pc = "responded" /\ http_status = 200

\* A structurally valid item: a record with at least one of its fields.
ValidRecord(i) == i \in Tracks /\ i # [ItemNone EXCEPT !.k = "dict"]

\* The markup entity of the ampersand.
AmpEntity == <<"&", "a", "m", "p", ";">>

AllDefaults ==
  /\ dataDict.artistName = UnknownArtist
  /\ dataDict.songName = UnknownSong
  /\ dataDict.songURI = "#"
  /\ dataDict.artistURI = "#"

\* C1: when the payload's is_playing is true, the derived status is
\* "playing" if item is a structurally valid record and "offline" (never
\* "playing", never "recent") if item is missing or not a valid record.
C1_PlayingOrDowngraded ==
  (StatusDerived /\ data.k = "dict" /\ data.is_playing = "true") =>
    IF ValidRecord(data.item)
    THEN currentStatus = "playing"
    ELSE currentStatus = "offline"

C1_Witness ==
  /\ Rendered
  /\ data.is_playing = "true"
  /\ ValidRecord(data.item)
  /\ dataDict.status = "playing"

\* C2: every payload that is present (the fetch succeeded with an object)
\* and whose is_playing is false or absent, the payload with no fields at
\* all included, has the derived status "recent".
C2_RecentWhenNotPlaying ==
  (StatusDerived /\ upstream = "200" /\ data.k = "dict"
     /\ data.is_playing # "true") =>
    currentStatus = "recent"

\* C3: for every outcome of the upstream fetch the request ends with a 200
\* response, and every failed outcome yields status "offline" with all
\* default fields.
C3_AlwaysOk ==
  pc = "responded" =>
    /\ http_status = 200
    /\ upstream # "200" => (dataDict.status = "offline" /\ AllDefaults)

\* C4: field extraction never raises, and each of the four fields is the
\* track's value when that value is present and its default otherwise.
C4_ExtractionTotal ==
  FieldsReached =>
    /\ raised = None
    /\ dataDict.artistName =
         IF item.artists.k = "list" /\ item.artists.first.name.has
         THEN item.artists.first.name.v ELSE UnknownArtist
    /\ dataDict.songName =
         IF item.name.has THEN item.name.v ELSE UnknownSong
    /\ dataDict.songURI =
         IF item.external_urls.k = "spotify"
         THEN item.external_urls.url ELSE "#"
    /\ dataDict.artistURI =
         IF /\ item.artists.k = "list"
            /\ item.artists.first.external_urls.k = "spotify"
         THEN item.artists.first.external_urls.url ELSE "#"

\* C5: the artwork URL is that of album.images[1] when the list has an
\* element at index 1 and the placeholder URL in every other case, and the
\* selection never raises.
C5_ArtworkSelection ==
  StatusDerived =>
    /\ raised # "makeSVG:128"
    /\ image_url =
         IF item.album.k = "images" /\ item.album.n >= 2
         THEN ImageUrl(1) ELSE PLACEHOLDER_URL

\* C6: in the songName and artistName handed to the template every
\* ampersand of the track's name and of the first artist's name is replaced
\* by its markup entity.
C6_AmpersandEscaped ==
  Rendered =>
    /\ NameTruthy(item.name) =>
         dataDict.songName = Replace(item.name.v, "&", AmpEntity)
    /\ (item.artists.k = "list" /\ item.artists.first.name.has) =>
         dataDict.artistName =
           Replace(item.artists.first.name.v, "&", AmpEntity)

\* C7 as stated: with the payload absent, the display model has status
\* "offline", the four default fields, and the default palette for every
\* outcome of the image fetch and the palette extraction.
C7_PaletteAlwaysDefault ==
  (Rendered /\ data = DataNone) =>
    /\ dataDict.status = "offline"
    /\ AllDefaults
    /\ dataDict.songPalette = DefaultPalette

\* C7 amended: with the payload absent, the display model has status
\* "offline" and the four default fields; the artwork is the placeholder's,
\* and the palette is the default palette when the extraction from the
\* placeholder fails and the extracted palette when it succeeds.
C7_OfflineDefaults ==
  (Rendered /\ data = DataNone) =>
    /\ dataDict.status = "offline"
    /\ AllDefaults
    /\ image_url = PLACEHOLDER_URL
    /\ paletteOutcome = "failed" => dataDict.songPalette = DefaultPalette
    /\ paletteOutcome = "ok" =>
         [k |-> "list", v |-> dataDict.songPalette] \in ExtractedPalettes

C7_Witness ==
  /\ Rendered
  /\ data = DataNone
  /\ paletteOutcome = "ok"
  /\ dataDict.songPalette # DefaultPalette
  /\ dataDict.artistName = UnknownArtist

\* C8: getTemplate returns the requested theme's template if the theme is
\* given and known, otherwise the current-theme's template if that is given
\* and known, otherwise the hardcoded fallback; an unreadable registry gives
\* the fallback; an unknown and an absent requested theme give the same.
C8_TemplateResolution ==
  pc = "returned" =>
    /\ template_file =
         IF registry.k # "ok" THEN FALLBACK_THEME
         ELSE IF theme_name \notin {None, ""} /\ theme_name \in registry.keys
           THEN TemplateFile(theme_name)
           ELSE IF /\ registry.current \notin {None, ""}
                   /\ registry.current \in registry.keys
             THEN TemplateFile(registry.current)
             ELSE FALLBACK_THEME
    /\ (registry.k = "ok" /\ theme_name \notin registry.keys) =>
         template_file = getTemplate(None, registry)

C8_Witness ==
  /\ pc = "returned"
  /\ registry.k = "ok"
  /\ theme_name = "nope"
  /\ registry.current = "dark"
  /\ template_file = "dark.html.j2"

\* C9: for every combination of success and failure of the image load and
\* the palette extraction both are attempted, a failed load gives the image
\* "" and a failed extraction the default palette, neither changes the
\* other's result, and the text fields and the template are those the item,
\* the theme and the registry give.
C9_IndependentDegradation ==
  /\ FieldsReached => (imageOutcome # "" /\ paletteOutcome # "")
  /\ Rendered =>
       /\ dataDict.image =
            IF imageOutcome = "failed" THEN EmptyImage ELSE B64(image_url)
       /\ paletteOutcome = "failed" => dataDict.songPalette = DefaultPalette
       /\ paletteOutcome = "ok" =>
            [k |-> "list", v |-> dataDict.songPalette] \in ExtractedPalettes
       /\ template_file = getTemplate(theme_name, registry)
       /\ LET f == ExtractFields(item)
          IN /\ dataDict.artistName = f.artistName
             /\ dataDict.songName = f.songName
             /\ dataDict.songURI = f.songURI
             /\ dataDict.artistURI = f.artistURI
  /\ FieldsReached => (raised = None <=> ExtractFields(item).exc = None)

C9_Witness ==
  /\ Rendered
  /\ currentStatus = "playing"
  /\ imageOutcome = "failed"
  /\ paletteOutcome = "ok"
  /\ dataDict.image = EmptyImage
  /\ dataDict.songPalette # DefaultPalette
  /\ dataDict.songName = <<"a">>

\* C10: every external call has a timeout, so that a request whose remote
\* service never answers is not blocked: until it has responded, the
\* request always has a step to take.
C10_NeverBlocked == pc = "responded" \/ ENABLED Next

\* The same as a liveness property, for FairSpec: every request eventually
\* completes.
EventuallyResponds == <>(pc = "responded")

=============================================================================
